---- MODULE Spec2Model ----
(***************************************************************************)
(* A model of the queues of src/conn/queue.rs: the OrderedQueue (a sparse  *)
(* map index -> payload with a scope window (lo, hi)) and the              *)
(* RecoveryQueue (a bounded FIFO of (index, item)).  Every operation of    *)
(* the source is a pure operator over the object's fields, and an action   *)
(* applies it to the state and records the call and what it returned.      *)
(***************************************************************************)
EXTENDS Integers, Naturals, Sequences, FiniteSets, TLC

VARIABLES
    queue,      \* OrderedQueue.queue: BTreeMap<u32, T>, a function id -> payload
    scope,      \* OrderedQueue.scope: (u32, u32), <<lo, hi>>
    oqLast,     \* the last OrderedQueue call: its arguments, result and pre-state
    emitted,    \* the ordering indices of everything the flush calls returned, in order
    oqSteps,    \* number of OrderedQueue calls made
    oqAccepted, \* the payloads insert accepted since the last flush, by index
    recovery,   \* RecoveryQueue.recovery: VecDeque<(u32, Item)>, oldest first
    capacity,   \* RecoveryQueue.capacity: u32
    index,      \* RecoveryQueue.index: u32, the next index to assign
    rqLast,     \* the last RecoveryQueue call: its argument, result and pre-state
    returned,   \* the indices the insert calls returned, in order
    rqInserted, \* index -> the item the last insert stored under it
    rqEvicted,  \* the indices validate_capacity popped
    rqRemoved,  \* the indices remove dropped
    hsStatus,   \* HandshakeState.status
    hsDone,     \* HandshakeState.done
    hsWaker,    \* HandshakeState.waker: TRUE for Some(waker)
    hsPc,       \* where the spawned handshake task stands
    hsTries,    \* `tries` of the receive loop the task is in
    hsMtu,      \* the `mtu` argument of ClientHandshake::new
    hsInbox,    \* what the socket's next recv returns: NoPacket while nothing came
    hsSent,     \* the packets the client put on the wire, in order
    hsAttempts, \* receives of the current wait that gave no expected reply
    hsReply,    \* the packets the task accepted as replies, in order
    hsLog,      \* the packets sent and the replies accepted, in the order they happened
    hsPoll,     \* the last result of ClientHandshake::poll
    hsNeedPoll, \* the future was awaited or woken and not polled since
    offLast     \* the last datagram given to handle_offline and the stream it returned

vars == <<queue, scope, oqLast, emitted, oqSteps, oqAccepted,
          recovery, capacity, index, rqLast, returned, rqInserted, rqEvicted, rqRemoved,
          hsStatus, hsDone, hsWaker, hsPc, hsTries, hsMtu, hsInbox, hsSent,
          hsAttempts, hsReply, hsLog, hsPoll, hsNeedPoll, offLast>>

oqVars == <<queue, scope, oqLast, emitted, oqSteps, oqAccepted>>
rqVars == <<recovery, capacity, index, rqLast, returned, rqInserted, rqEvicted, rqRemoved>>
hsVars == <<hsStatus, hsDone, hsWaker, hsPc, hsTries, hsMtu, hsInbox, hsSent,
            hsAttempts, hsReply, hsLog, hsPoll, hsNeedPoll>>
offVars == <<offLast>>

----------------------------------------------------------------------------
(* Widths and bounds *)

\* u32 arithmetic is modulo 2^32 in the source; the model keeps the modular
\* arithmetic and scales the width down so that every index can be enumerated
U32Modulus == 8

U32Max == U32Modulus - 1

\* RecoveryQueue::new() stores 255 records
DefaultCapacity == 255

\* number of OrderedQueue calls in a run
MaxOps == 4

\* capacities passed to RecoveryQueue::with_capacity: 0..MaxCap
MaxCap == 3

\* number of RecoveryQueue::insert calls in a run
MaxInserts == 8

\* number of RecoveryQueue::remove calls in a run
MaxRemoves == 1

\* the receive loops give up at `tries >= 5` (handshake.rs:47, 80)
MaxTries == 5

\* every u32: the ordering indices that can be passed to insert
Ids == 0..U32Max

Payloads == {"a", "b"}

Items == {"x", "y"}

----------------------------------------------------------------------------
(* Helpers over maps and sequences *)

EmptyMap == [k \in {} |-> "a"]

Put(m, k, v) == [x \in (DOMAIN m) \cup {k} |-> IF x = k THEN v ELSE m[x]]

Restrict(m, S) == [x \in S |-> m[x]]

SetMin(S) == CHOOSE x \in S : \A y \in S : x <= y

\* the keys of a BTreeMap in iteration order (ascending)
RECURSIVE SortedKeys(_)
SortedKeys(S) ==
    IF S = {} THEN <<>> ELSE <<SetMin(S)>> \o SortedKeys(S \ {SetMin(S)})

Range(s) == {s[i] : i \in DOMAIN s}

----------------------------------------------------------------------------
(* OrderedQueue *)

OrderedQueue_new == [queue |-> EmptyMap, scope |-> <<0, 0>>]

\* `id + 1` on u32 (queue.rs:171): true when the sum does not fit
InsertOverflows(sc, id) == id >= sc[1] /\ id > sc[2] /\ id + 1 >= U32Modulus

\* the scope after an accepted insert (queue.rs:170-172), the sum wrapping
InsertScope(sc, id) ==
    IF id > sc[2] THEN <<sc[1], (id + 1) % U32Modulus>> ELSE sc

\* OrderedQueue::insert.  `panics` selects the build with overflow checks,
\* where an overflowing `id + 1` aborts the call before the map is touched.
OrderedQueue_insert(q, sc, packet, id, panics) ==
    IF id < sc[1]
    THEN [queue |-> q, scope |-> sc, ret |-> FALSE, panicked |-> FALSE]
    ELSE IF InsertOverflows(sc, id) /\ panics
    THEN [queue |-> q, scope |-> sc, ret |-> FALSE, panicked |-> TRUE]
    ELSE [queue |-> Put(q, id, packet), scope |-> InsertScope(sc, id),
          ret |-> TRUE, panicked |-> FALSE]

\* OrderedQueue::clear_out_of_scope: drop every key below lo
OrderedQueue_clear_out_of_scope(q, sc) ==
    Restrict(q, {k \in DOMAIN q : ~(k < sc[1])})

\* OrderedQueue::flush: clear, take the whole map, return its values by key
OrderedQueue_flush(q, sc) ==
    LET map  == OrderedQueue_clear_out_of_scope(q, sc)
        keys == SortedKeys(DOMAIN map)
    IN  [queue |-> EmptyMap, scope |-> sc,
         ret |-> [i \in DOMAIN keys |-> map[keys[i]]],
         ids |-> keys]

\* the loop of flush_missing (queue.rs:200-204) from i up to hi
RECURSIVE MissingFrom(_, _, _)
MissingFrom(i, hi, q) ==
    IF i >= hi THEN <<>>
    ELSE (IF i \in DOMAIN q THEN <<>> ELSE <<i>>) \o MissingFrom(i + 1, hi, q)

\* a slip in the new lo: the last missing index instead of the first
FlushMissingLoLast(missing, lo) ==
    IF Len(missing) > 0 THEN missing[Len(missing)] ELSE lo

\* the new lo: missing.get(0).unwrap_or(&self.scope.0) (queue.rs:207)
FlushMissingLo(missing, lo) == IF Len(missing) > 0 THEN missing[1] ELSE lo

\* OrderedQueue::flush_missing
OrderedQueue_flush_missing(q, sc) ==
    LET missing == MissingFrom(sc[1], sc[2], q)
    IN  [queue |-> q, scope |-> <<FlushMissingLo(missing, sc[1]), sc[2]>>,
         ret |-> missing]

\* OrderedQueue::get_scope, as the mathematical difference
OrderedQueue_get_scope(sc) == sc[2] - sc[1]

NoCall == [op |-> "new", id |-> 0, packet |-> "a", ok |-> FALSE, panicked |-> FALSE,
           ret |-> <<>>, queue |-> EmptyMap, scope |-> <<0, 0>>, accepted |-> EmptyMap]

OqLive == oqSteps < MaxOps /\ ~oqLast.panicked

InsertStep(packet, id, panics) ==
    LET r == OrderedQueue_insert(queue, scope, packet, id, panics)
    IN  /\ OqLive
        /\ queue' = r.queue
        /\ scope' = r.scope
        /\ oqLast' = [op |-> "insert", id |-> id, packet |-> packet, ok |-> r.ret,
                      panicked |-> r.panicked, ret |-> <<>>,
                      queue |-> queue, scope |-> scope, accepted |-> oqAccepted]
        /\ oqAccepted' = IF r.ret THEN Put(oqAccepted, id, packet) ELSE oqAccepted
        /\ emitted' = emitted
        /\ oqSteps' = oqSteps + 1
        /\ UNCHANGED <<rqVars, hsVars, offVars>>

\* a call of insert in a build where u32 sums wrap
Insert == \E packet \in Payloads, id \in Ids : InsertStep(packet, id, FALSE)

\* a call of insert whose `id + 1` overflows, in a build that checks it
InsertPanic ==
    \E packet \in Payloads, id \in Ids :
        InsertOverflows(scope, id) /\ InsertStep(packet, id, TRUE)

Flush ==
    LET r == OrderedQueue_flush(queue, scope)
    IN  /\ OqLive
        /\ queue' = r.queue
        /\ scope' = r.scope
        /\ oqLast' = [op |-> "flush", id |-> 0, packet |-> "a", ok |-> FALSE,
                      panicked |-> FALSE, ret |-> r.ret,
                      queue |-> queue, scope |-> scope, accepted |-> oqAccepted]
        /\ oqAccepted' = EmptyMap
        /\ emitted' = emitted \o r.ids
        /\ oqSteps' = oqSteps + 1
        /\ UNCHANGED <<rqVars, hsVars, offVars>>

FlushMissing ==
    LET r == OrderedQueue_flush_missing(queue, scope)
    IN  /\ OqLive
        /\ queue' = r.queue
        /\ scope' = r.scope
        /\ oqLast' = [op |-> "flush_missing", id |-> 0, packet |-> "a", ok |-> FALSE,
                      panicked |-> FALSE, ret |-> r.ret,
                      queue |-> queue, scope |-> scope, accepted |-> oqAccepted]
        /\ oqAccepted' = oqAccepted
        /\ emitted' = emitted
        /\ oqSteps' = oqSteps + 1
        /\ UNCHANGED <<rqVars, hsVars, offVars>>

----------------------------------------------------------------------------
(* RecoveryQueue *)

RecoveryQueue_new == [recovery |-> <<>>, capacity |-> DefaultCapacity, index |-> 0]

RecoveryQueue_with_capacity(c) == [recovery |-> <<>>, capacity |-> c, index |-> 0]

\* RecoveryQueue::validate_capacity: pop the front when len == capacity
\* (pop_front on an empty deque returns None and changes nothing)
RecoveryQueue_validate_capacity(rec, cap) ==
    IF Len(rec) = cap THEN (IF rec = <<>> THEN rec ELSE Tail(rec)) ELSE rec

\* a slip in the index handed out: the counter after the increment
InsertIdxAfterIncrement(idx) == idx + 1

\* the index handed out by insert (queue.rs:71)
InsertIdx(idx) == idx

\* a slip in the counter: the increment forgotten
NextIndexStuck(idx) == idx

\* the counter after insert (queue.rs:73)
NextIndex(idx) == (idx + 1) % U32Modulus

\* `self.index += 1` on u32 (queue.rs:73): true when the sum does not fit
IndexOverflows(idx) == idx + 1 >= U32Modulus

\* RecoveryQueue::insert.  `panics` selects the build with overflow checks,
\* where an overflowing `self.index += 1` aborts the call after the push.
RecoveryQueue_insert(rec, cap, idx, item, panics) ==
    LET pushed == Append(RecoveryQueue_validate_capacity(rec, cap), <<InsertIdx(idx), item>>)
    IN  IF IndexOverflows(idx) /\ panics
        THEN [recovery |-> pushed, capacity |-> cap, index |-> idx,
              ret |-> InsertIdx(idx), panicked |-> TRUE]
        ELSE [recovery |-> pushed, capacity |-> cap, index |-> NextIndex(idx),
              ret |-> InsertIdx(idx), panicked |-> FALSE]

\* the indices stored in a deque
LiveIndices(rec) == {rec[k][1] : k \in DOMAIN rec}

\* RecoveryQueue::recover, from its contract (spec 4.6) and the doc example
\* (queue.rs:30-36): the item stored under i, the queue left as it is;
\* Invalid for an index not assigned yet, IndexOld for one no longer stored
RecoveryQueue_recover(rec, idx, i) ==
    IF i >= idx
    THEN [res |-> "Invalid", item |-> "x"]
    ELSE IF i \in LiveIndices(rec)
    THEN [res |-> "Ok",
          item |-> rec[SetMin({k \in DOMAIN rec : rec[k][1] = i})][2]]
    ELSE [res |-> "IndexOld", item |-> "x"]

\* RecoveryQueue::remove, from its contract (spec 4.6): drops the entry
RecoveryQueue_remove(rec, i) == SelectSeq(rec, LAMBDA e : e[1] # i)

NoRqCall == [op |-> "new", item |-> "x", ret |-> 0, panicked |-> FALSE,
             recovery |-> <<>>, index |-> 0, arg |-> 0, res |-> "none"]

RqInsertStep(item, panics) ==
    LET r == RecoveryQueue_insert(recovery, capacity, index, item, panics)
    IN  /\ Len(returned) < MaxInserts
        /\ ~rqLast.panicked
        /\ recovery' = r.recovery
        /\ capacity' = r.capacity
        /\ index' = r.index
        /\ rqLast' = [op |-> "insert", item |-> item, ret |-> r.ret,
                      panicked |-> r.panicked,
                      recovery |-> recovery, index |-> index,
                      arg |-> 0, res |-> "none"]
        /\ returned' = IF r.panicked THEN returned ELSE Append(returned, r.ret)
        /\ rqInserted' = Put(rqInserted, r.ret, item)
        /\ rqEvicted' = rqEvicted \cup
               (LiveIndices(recovery) \ LiveIndices(RecoveryQueue_validate_capacity(recovery, capacity)))
        /\ rqRemoved' = rqRemoved
        /\ UNCHANGED <<oqVars, hsVars, offVars>>

\* a call of insert in a build where u32 sums wrap
RqInsert == \E item \in Items : RqInsertStep(item, FALSE)

\* a call of insert whose `self.index += 1` overflows, in a build that checks it
RqInsertPanic == \E item \in Items : IndexOverflows(index) /\ RqInsertStep(item, TRUE)

\* a call of recover(i): the queue is only read, so a second recover in a
\* row would see the same queue and is left out
RqRecover ==
    \E i \in Ids :
        LET r == RecoveryQueue_recover(recovery, index, i)
        IN  /\ ~rqLast.panicked
            /\ rqLast.op # "recover"
            /\ rqLast' = [op |-> "recover", item |-> r.item, ret |-> 0,
                          panicked |-> FALSE,
                          recovery |-> recovery, index |-> index,
                          arg |-> i, res |-> r.res]
            /\ UNCHANGED <<recovery, capacity, index, returned,
                           rqInserted, rqEvicted, rqRemoved>>
            /\ UNCHANGED <<oqVars, hsVars, offVars>>

\* a call of remove(i)
RqRemove ==
    \E i \in Ids :
        /\ ~rqLast.panicked
        /\ Cardinality(rqRemoved) < MaxRemoves
        /\ recovery' = RecoveryQueue_remove(recovery, i)
        /\ rqLast' = [op |-> "remove", item |-> "x", ret |-> 0,
                      panicked |-> FALSE,
                      recovery |-> recovery, index |-> index,
                      arg |-> i, res |-> "none"]
        /\ rqRemoved' = rqRemoved \cup (LiveIndices(recovery) \cap {i})
        /\ UNCHANGED <<capacity, index, returned, rqInserted, rqEvicted>>
        /\ UNCHANGED <<oqVars, hsVars, offVars>>

----------------------------------------------------------------------------
(* Client handshake: packets *)

\* packet ids (the first byte of a datagram)
ID_OpenConnectReply == 6
ID_SessionInfoReply == 8
ID_IncompatibleProtocolVersion == 25
ID_FrameLo == 128
ID_FrameHi == 141

\* the first bytes the model lets arrive: the ids above, one byte below and
\* one above the frame range, and 0
PacketIds == {0, ID_OpenConnectReply, ID_SessionInfoReply, ID_IncompatibleProtocolVersion,
              ID_FrameLo - 1, ID_FrameLo, ID_FrameHi, ID_FrameHi + 1}

\* the values of the `mtu` argument and of a reply's mtu field
Mtus == {576, 1400, 1492}

\* what the bytes after the id decode as
Bodies ==
    {[shape |-> "OpenConnectReply"], [shape |-> "IncompatibleProtocolVersion"],
     [shape |-> "junk"]}
    \cup {[shape |-> "SessionInfoReply", mtu_size |-> m] : m \in Mtus}
    \cup {[shape |-> "Frame", online |-> o] : o \in {"ConnectionAccept", "ConnectedPing"}}

Packets == {[id |-> i, body |-> b] : i \in PacketIds, b \in Bodies}

NoPacket == [id |-> -1, body |-> [shape |-> "none"]]

RecvError == [id |-> -2, body |-> [shape |-> "error"]]

\* a datagram of length 0: the buffer keeps the first byte of the datagram
\* before it, which no wait has accepted, so its id matches nothing
EmptyDatagram == [id |-> -3, body |-> [shape |-> "empty"]]

\* <T>::compose(&mut buf[1..], &mut 0): decoding succeeds on the encodings of
\* T (spec 8, round trip); the id byte is not part of what is decoded
Compose(shape, pk) == pk.body.shape = shape

\* ids.contains(&recv_buf[0]) of match_ids! (handshake.rs:62)
MatchIds(ids, pk) == pk.id \in ids

\* the range without its upper end, 0x80..0x8d
IsFrameBelowHi(pk) == pk.id >= ID_FrameLo /\ pk.id < ID_FrameHi /\ Compose("Frame", pk)

\* buf[0] in 0x80..=0x8d and FramePacket::compose (handshake.rs:257-259)
IsFrame(pk) == pk.id >= ID_FrameLo /\ pk.id <= ID_FrameHi /\ Compose("Frame", pk)

\* the RecvQueue hands the frame's packet on: recv_q.insert, recv_q.flush
\* (handshake.rs:260-270)
CarriesConnectionAccept(pk) == IsFrame(pk) /\ pk.body.online = "ConnectionAccept"

----------------------------------------------------------------------------
(* Client handshake: the shared state and the spawned task *)

Terminal == {"Completed", "Failed", "IncompatibleVersion"}

\* `state.done = true` is left out of the terminal update
UpdateStateDoneUnset(state, done) ==
    /\ hsStatus' = state
    /\ hsDone' = FALSE
    /\ hsWaker' = FALSE
    /\ hsNeedPoll' = (hsNeedPoll \/ hsWaker)

\* the stored waker is taken and dropped without wake()
UpdateStateNoWake(state, done) ==
    /\ hsStatus' = state
    /\ hsDone' = done
    /\ hsWaker' = FALSE
    /\ hsNeedPoll' = hsNeedPoll

\* update_state!(shared_state, state): status, done = false, wake
\* update_state!(true, shared_state, state): status, done = true, wake, return
UpdateState(state, done) ==
    /\ hsStatus' = state
    /\ hsDone' = done
    /\ hsWaker' = FALSE
    /\ hsNeedPoll' = (hsNeedPoll \/ hsWaker)

\* the terminal status is set but the task goes on
FinishWithoutReturn(state) ==
    /\ UpdateState(state, TRUE)
    /\ hsPc' = hsPc

\* the task ends with a terminal status (the `return` of update_state!)
Finish(state) ==
    /\ UpdateState(state, TRUE)
    /\ hsPc' = "returned"

\* the socket hands a datagram or an error to the waiting recv
Taken == hsInbox # NoPacket /\ hsInbox' = NoPacket

\* the count of receives that gave no expected reply, kept below MaxTries + 1
Missed == IF hsAttempts < MaxTries THEN hsAttempts + 1 ELSE hsAttempts

\* the step's successful send or accepted reply is added to the log
LogStep ==
    hsLog' = IF hsSent' # hsSent
             THEN Append(hsLog, [ev |-> "sent", name |-> hsSent'[Len(hsSent')],
                                 pk |-> NoPacket])
             ELSE IF hsReply' # hsReply
             THEN Append(hsLog, [ev |-> "received", name |-> "reply",
                                 pk |-> hsReply'[Len(hsReply')]])
             ELSE hsLog

\* handshake.rs:156-162: the task starts and reports Opening
TaskStart ==
    /\ hsPc = "spawned"
    /\ UpdateState("Opening", FALSE)
    /\ hsPc' = "send_open"
    /\ UNCHANGED <<hsTries, hsMtu, hsInbox, hsSent, hsAttempts, hsReply, hsPoll>>
    /\ LogStep

\* handshake.rs:164: send_packet(OpenConnectRequest); a send error is logged
\* and dropped (handshake.rs:335-339)
SendOpenConnectRequest(ok) ==
    /\ hsPc = "send_open"
    /\ hsSent' = IF ok THEN Append(hsSent, "OpenConnectRequest") ELSE hsSent
    /\ hsPc' = "wait_open"
    /\ hsTries' = 0
    /\ hsAttempts' = 0
    /\ UNCHANGED <<hsStatus, hsDone, hsWaker, hsNeedPoll, hsMtu, hsInbox, hsReply, hsPoll>>
    /\ LogStep

\* handshake.rs:165-200: one recv of match_ids! and what follows it
WaitOpenReply ==
    /\ hsPc = "wait_open"
    /\ Taken
    /\ IF hsInbox = RecvError
       THEN /\ hsTries' = hsTries + 1
            /\ hsAttempts' = Missed
            /\ hsReply' = hsReply
            /\ IF hsTries + 1 >= MaxTries
               THEN Finish("Failed")
               ELSE UNCHANGED <<hsStatus, hsDone, hsWaker, hsNeedPoll, hsPc>>
       ELSE IF ~MatchIds({ID_OpenConnectReply, ID_IncompatibleProtocolVersion}, hsInbox)
       THEN /\ hsAttempts' = Missed
            /\ UNCHANGED <<hsTries, hsReply, hsStatus, hsDone, hsWaker, hsNeedPoll, hsPc>>
       ELSE /\ hsReply' = Append(hsReply, hsInbox)
            /\ UNCHANGED <<hsTries, hsAttempts>>
            /\ IF Compose("IncompatibleProtocolVersion", hsInbox)
               THEN Finish("IncompatibleVersion")
               ELSE IF ~Compose("OpenConnectReply", hsInbox)
               THEN Finish("Failed")
               ELSE /\ UpdateState("SessionOpen", FALSE)
                    /\ hsPc' = "send_session"
    /\ UNCHANGED <<hsMtu, hsSent, hsPoll>>
    /\ LogStep

\* handshake.rs:202: send_packet(SessionInfoRequest)
SendSessionInfoRequest(ok) ==
    /\ hsPc = "send_session"
    /\ hsSent' = IF ok THEN Append(hsSent, "SessionInfoRequest") ELSE hsSent
    /\ hsPc' = "wait_session"
    /\ hsTries' = 0
    /\ hsAttempts' = 0
    /\ UNCHANGED <<hsStatus, hsDone, hsWaker, hsNeedPoll, hsMtu, hsInbox, hsReply, hsPoll>>
    /\ LogStep

\* only a larger mtu is refused
MtuLarger(pk, mtu) == pk.body.mtu_size > mtu

\* session_reply.mtu_size != mtu (handshake.rs:212)
MtuDiffers(pk, mtu) == pk.body.mtu_size # mtu

\* handshake.rs:204-229: one recv of expect_reply! and what follows it
WaitSessionInfoReply ==
    /\ hsPc = "wait_session"
    /\ Taken
    /\ IF hsInbox = RecvError
       THEN /\ hsTries' = hsTries + 1
            /\ hsAttempts' = Missed
            /\ hsReply' = hsReply
            /\ IF hsTries + 1 >= MaxTries
               THEN Finish("Failed")
               ELSE UNCHANGED <<hsStatus, hsDone, hsWaker, hsNeedPoll, hsPc>>
       ELSE IF hsInbox = EmptyDatagram
       THEN \* recv_buf[1..0] (handshake.rs:95) is out of range: the task panics
            /\ hsPc' = "panicked"
            /\ hsAttempts' = Missed
            /\ UNCHANGED <<hsTries, hsReply, hsStatus, hsDone, hsWaker, hsNeedPoll>>
       ELSE IF ~Compose("SessionInfoReply", hsInbox)
       THEN /\ hsAttempts' = Missed
            /\ UNCHANGED <<hsTries, hsReply, hsStatus, hsDone, hsWaker, hsNeedPoll, hsPc>>
       ELSE /\ hsReply' = Append(hsReply, hsInbox)
            /\ UNCHANGED <<hsTries, hsAttempts>>
            /\ IF MtuDiffers(hsInbox, hsMtu)
               THEN Finish("Failed")
               ELSE /\ hsPc' = "send_connect"
                    /\ UNCHANGED <<hsStatus, hsDone, hsWaker, hsNeedPoll>>
    /\ UNCHANGED <<hsMtu, hsSent, hsPoll>>
    /\ LogStep

\* handshake.rs:231-241: send_q.insert(ConnectionRequest).await
SendConnectionRequest(ok) ==
    /\ hsPc = "send_connect"
    /\ IF ok
       THEN /\ hsSent' = Append(hsSent, "ConnectionRequest")
            /\ hsPc' = "online"
            /\ UNCHANGED <<hsStatus, hsDone, hsWaker, hsNeedPoll>>
       ELSE /\ hsSent' = hsSent
            /\ Finish("Failed")
    /\ UNCHANGED <<hsTries, hsMtu, hsInbox, hsAttempts, hsReply, hsPoll>>
    /\ LogStep

\* handshake.rs:245-309: one recv_from of the online loop
OnlineRecv ==
    /\ hsPc = "online"
    /\ Taken
    /\ IF hsInbox # RecvError /\ CarriesConnectionAccept(hsInbox)
       THEN /\ hsReply' = Append(hsReply, hsInbox)
            /\ hsPc' = "send_new"
       ELSE UNCHANGED <<hsReply, hsPc>>
    /\ UNCHANGED <<hsStatus, hsDone, hsWaker, hsNeedPoll, hsTries, hsMtu, hsSent,
                   hsAttempts, hsPoll>>
    /\ LogStep

\* handshake.rs:272-298: send_q.insert(NewConnection).await and the result
SendNewConnection(ok) ==
    /\ hsPc = "send_new"
    /\ IF ok
       THEN /\ hsSent' = Append(hsSent, "NewConnection")
            /\ Finish("Completed")
       ELSE /\ hsSent' = hsSent
            /\ Finish("Failed")
    /\ UNCHANGED <<hsTries, hsMtu, hsInbox, hsAttempts, hsReply, hsPoll>>
    /\ LogStep

\* ClientHandshake::poll (handshake.rs:319-332)
Poll ==
    /\ IF hsDone
       THEN /\ hsPoll' = [ret |-> "Ready", status |-> hsStatus]
            /\ hsWaker' = hsWaker
       ELSE /\ hsPoll' = [ret |-> "Pending", status |-> "none"]
            /\ hsWaker' = TRUE
    /\ hsNeedPoll' = FALSE
    /\ UNCHANGED <<hsStatus, hsDone, hsPc, hsTries, hsMtu, hsInbox, hsSent,
                   hsAttempts, hsReply, hsLog>>

\* a datagram from anyone, or a receive error, reaches the socket
Arrive ==
    /\ hsInbox = NoPacket
    /\ hsPc \in {"wait_open", "wait_session", "online"}
    /\ hsInbox' \in Packets \cup {RecvError, EmptyDatagram}
    /\ UNCHANGED <<hsStatus, hsDone, hsWaker, hsPc, hsTries, hsMtu, hsSent,
                   hsAttempts, hsReply, hsLog, hsPoll, hsNeedPoll>>

\* the reply a server owes to the client's packet
Answers(sent, mtu) ==
    IF sent = "OpenConnectRequest"
    THEN {[id |-> ID_OpenConnectReply, body |-> [shape |-> "OpenConnectReply"]]}
    ELSE IF sent = "SessionInfoRequest"
    THEN {[id |-> ID_SessionInfoReply,
           body |-> [shape |-> "SessionInfoReply", mtu_size |-> mtu]]}
    ELSE IF sent = "ConnectionRequest"
    THEN {[id |-> i, body |-> [shape |-> "Frame", online |-> "ConnectionAccept"]] :
             i \in {ID_FrameLo, ID_FrameHi}}
    ELSE {}

\* the server answers the client's latest packet, once
ServerAnswer ==
    /\ hsInbox = NoPacket
    /\ hsPc \in {"wait_open", "wait_session", "online"}
    /\ Len(hsReply) < Len(hsSent)
    /\ hsInbox' \in Answers(hsSent[Len(hsReply) + 1], hsMtu)
    /\ UNCHANGED <<hsStatus, hsDone, hsWaker, hsPc, hsTries, hsMtu, hsSent,
                   hsAttempts, hsReply, hsLog, hsPoll, hsNeedPoll>>

\* the steps of the spawned task when every send succeeds
TaskDelivered ==
    \/ TaskStart
    \/ SendOpenConnectRequest(TRUE)
    \/ WaitOpenReply
    \/ SendSessionInfoRequest(TRUE)
    \/ WaitSessionInfoReply
    \/ SendConnectionRequest(TRUE)
    \/ OnlineRecv
    \/ SendNewConnection(TRUE)

\* the steps of the spawned task; every send may fail
TaskNext ==
    \/ TaskStart
    \/ \E ok \in BOOLEAN : SendOpenConnectRequest(ok)
    \/ WaitOpenReply
    \/ \E ok \in BOOLEAN : SendSessionInfoRequest(ok)
    \/ WaitSessionInfoReply
    \/ \E ok \in BOOLEAN : SendConnectionRequest(ok)
    \/ OnlineRecv
    \/ \E ok \in BOOLEAN : SendNewConnection(ok)

----------------------------------------------------------------------------
(* Server: the offline packet handler *)

ID_UnconnectedPing == 1
ID_OpenConnectRequest == 5
ID_SessionInfo == 7
ID_UnconnectedPong == 28

\* every value of the first byte of a datagram
Bytes == 0 .. 255

\* the protocol versions a client advertises in OpenConnectRequest
Protocols == {9, 10, 11}

\* the versions the server accepts (spec 11, scenario 2)
AcceptedProtocols == {11}

\* the peers a datagram comes from
Addresses == {"peer1", "peer2"}

\* OfflinePackets::recv (offline.rs:24-34)
OfflinePackets_recv(byte) ==
    IF byte = ID_UnconnectedPing THEN [kind |-> "UnconnectedPing", byte |-> byte]
    ELSE IF byte = ID_OpenConnectRequest THEN [kind |-> "OpenConnectRequest", byte |-> byte]
    ELSE IF byte = ID_OpenConnectReply THEN [kind |-> "OpenConnectReply", byte |-> byte]
    ELSE IF byte = ID_SessionInfo THEN [kind |-> "SessionInfo", byte |-> byte]
    ELSE IF byte = ID_SessionInfoReply THEN [kind |-> "SessionInfoReply", byte |-> byte]
    ELSE IF byte = ID_UnconnectedPong THEN [kind |-> "UnconnectedPong", byte |-> byte]
    ELSE [kind |-> "UnknownPacket", byte |-> byte]

\* OfflinePackets::to_byte (offline.rs:36-47)
OfflinePackets_to_byte(pk) ==
    IF pk.kind = "UnconnectedPing" THEN ID_UnconnectedPing
    ELSE IF pk.kind = "OpenConnectRequest" THEN ID_OpenConnectRequest
    ELSE IF pk.kind = "OpenConnectReply" THEN ID_OpenConnectReply
    ELSE IF pk.kind = "SessionInfo" THEN ID_SessionInfo
    ELSE IF pk.kind = "SessionInfoReply" THEN ID_SessionInfoReply
    ELSE IF pk.kind = "UnconnectedPong" THEN ID_UnconnectedPong
    ELSE pk.byte

\* BinaryStream::new(): a stream with no bytes
EmptyStream == [bytes |-> <<>>, fields |-> "none"]

\* <T as IClientBound>::to: the id byte, then the fields of T
\* (offline.rs:70-80, 133-143)
ToStream(kind) ==
    [bytes |-> <<OfflinePackets_to_byte([kind |-> kind, byte |-> 0])>>, fields |-> kind]

\* handle_offline (offline.rs:178-201); the advertised protocol is in _stream,
\* which is never read (OpenConnectRequest::recv, offline.rs:89-98, is not called)
handle_offline(pk, protocol) ==
    IF pk.kind = "UnconnectedPing" THEN ToStream("UnconnectedPong")
    ELSE IF pk.kind = "OpenConnectRequest" THEN ToStream("OpenConnectReply")
    ELSE EmptyStream

NoDatagram ==
    [op |-> "none", addr |-> "peer1", byte |-> 0, protocol |-> 11, reply |-> EmptyStream]

\* a datagram from addr with first byte `byte` is decoded and handled
HandleOffline ==
    /\ \E addr \in Addresses, byte \in Bytes, protocol \in Protocols :
           offLast' = [op |-> "handle_offline", addr |-> addr, byte |-> byte,
                       protocol |-> protocol,
                       reply |-> handle_offline(OfflinePackets_recv(byte), protocol)]
    /\ UNCHANGED <<oqVars, rqVars, hsVars>>

----------------------------------------------------------------------------
(* Specifications *)

InitOq ==
    /\ queue = OrderedQueue_new.queue
    /\ scope = OrderedQueue_new.scope
    /\ oqLast = NoCall
    /\ emitted = <<>>
    /\ oqSteps = 0
    /\ oqAccepted = EmptyMap

InitRq(q) ==
    /\ recovery = q.recovery
    /\ capacity = q.capacity
    /\ index = q.index
    /\ rqLast = NoRqCall
    /\ returned = <<>>
    /\ rqInserted = EmptyMap
    /\ rqEvicted = {}
    /\ rqRemoved = {}

\* ClientHandshake::new(socket, id, version, mtu, attempts) (handshake.rs:146-153)
InitHs(mtu) ==
    /\ hsStatus = "Created"
    /\ hsDone = FALSE
    /\ hsWaker = FALSE
    /\ hsPc = "spawned"
    /\ hsTries = 0
    /\ hsMtu = mtu
    /\ hsInbox = NoPacket
    /\ hsSent = <<>>
    /\ hsAttempts = 0
    /\ hsReply = <<>>
    /\ hsLog = <<>>
    /\ hsPoll = [ret |-> "none", status |-> "none"]
    /\ hsNeedPoll = TRUE

\* no datagram has reached the server
InitOffline == offLast = NoDatagram

\* a handshake nobody runs and an idle server, beside the queues
IdleHs == InitHs(1400) /\ InitOffline

\* one OrderedQueue::new(), beside an untouched RecoveryQueue::new()
InitOrdered == InitOq /\ InitRq(RecoveryQueue_new) /\ IdleHs

\* one RecoveryQueue::new() or with_capacity(c), beside an untouched OrderedQueue
InitRecovery ==
    /\ InitOq
    /\ IdleHs
    /\ \E q \in {RecoveryQueue_new} \cup {RecoveryQueue_with_capacity(c) : c \in 0..MaxCap} :
           InitRq(q)

NextOrdered == Insert \/ InsertPanic \/ Flush \/ FlushMissing

NextRecovery == RqInsert \/ RqInsertPanic

SpecOrdered == InitOrdered /\ [][NextOrdered]_vars

SpecRecovery == InitRecovery /\ [][NextRecovery]_vars

\* the RecoveryQueue with its lookups and removals
NextRecover == RqInsert \/ RqInsertPanic \/ RqRecover \/ RqRemove

SpecRecover == InitRecovery /\ [][NextRecover]_vars

\* one ClientHandshake::new, beside untouched queues
InitHandshake ==
    /\ InitOq
    /\ InitRq(RecoveryQueue_new)
    /\ InitOffline
    /\ \E mtu \in Mtus : InitHs(mtu)

HsStep(A) == A /\ UNCHANGED <<oqVars, rqVars, offVars>>

\* the task, the application polling the future, and the network
NextHandshake == HsStep(TaskNext) \/ HsStep(Poll) \/ HsStep(Arrive)

SpecHandshake == InitHandshake /\ [][NextHandshake]_vars

\* the runtime keeps running the task, and the application polls the future
\* when it awaits it and after every wake; the network owes nothing
SpecHandshakeFair ==
    /\ SpecHandshake
    /\ WF_vars(HsStep(TaskNext))
    /\ WF_vars(HsStep(Poll) /\ hsNeedPoll)

\* the server's offline handler, beside untouched queues and handshake
InitServer == InitOq /\ InitRq(RecoveryQueue_new) /\ IdleHs

NextServer == HandleOffline

SpecServer == InitServer /\ [][NextServer]_vars

NextHappy == HsStep(TaskDelivered) \/ HsStep(Poll) \/ HsStep(ServerAnswer)

\* every packet is delivered and the server answers each step with the
\* expected reply; the task runs and the future is polled as above
SpecHappy ==
    /\ InitHandshake
    /\ [][NextHappy]_vars
    /\ WF_vars(HsStep(TaskDelivered))
    /\ WF_vars(HsStep(Poll) /\ hsNeedPoll)
    /\ WF_vars(HsStep(ServerAnswer))

----------------------------------------------------------------------------
(* OrderedQueue: properties *)

\* the call oqLast records was made on this queue and this scope
PreQueue == oqLast.queue
PreScope == oqLast.scope

\* length of the run of consecutive stored indices lo, lo+1, ... of q
RECURSIVE RunLength(_, _)
RunLength(lo, q) == IF lo \in DOMAIN q THEN 1 + RunLength(lo + 1, q) ELSE 0

\* C1: the concatenation of everything the flush calls returned carries the
\* ordering indices 0, 1, 2, ... in this order: it starts at 0, each next
\* index is the previous one plus 1, and none is emitted twice.
C1_EmittedAscendingNoGaps ==
    \A k \in 1..Len(emitted) : emitted[k] = k - 1

\* C2: flush returns exactly the payloads of the longest run of consecutive
\* stored indices lo .. lo+n-1, sets lo to lo+n, and keeps every stored
\* payload after the first gap.
C2_FlushContiguousPrefix ==
    oqLast.op = "flush" =>
        LET lo == PreScope[1]
            n  == RunLength(lo, PreQueue)
        IN  /\ oqLast.ret = [i \in 1..n |-> PreQueue[lo + i - 1]]
            /\ scope[1] = lo + n
            /\ queue = Restrict(PreQueue, {k \in DOMAIN PreQueue : k >= lo + n})

\* C3: in every reachable state lo <= hi, so get_scope (hi - lo) does not
\* go below zero.
C3_ScopeOrdered ==
    scope[1] <= scope[2] /\ OrderedQueue_get_scope(scope) >= 0

\* C4: an accepted insert with index >= hi (index = hi included) sets hi to
\* index + 1, and one with lo <= index < hi leaves hi unchanged.  Stated for
\* the indices whose successor fits the integer width.
C4_InsertWidens ==
    (oqLast.op = "insert" /\ oqLast.ok /\ oqLast.id < U32Max) =>
        /\ oqLast.id >= PreScope[2] => scope[2] = oqLast.id + 1
        /\ oqLast.id < PreScope[2] => scope[2] = PreScope[2]

\* C5: an insert with index < lo returns false and leaves the stored
\* payloads and the scope unchanged; every insert with index >= lo returns
\* true and stores the payload under that index.
C5_InsertBelowLoRejected ==
    oqLast.op = "insert" =>
        IF oqLast.id < PreScope[1]
        THEN ~oqLast.ok /\ ~oqLast.panicked /\ queue = PreQueue /\ scope = PreScope
        ELSE /\ oqLast.ok /\ ~oqLast.panicked
             /\ oqLast.id \in DOMAIN queue
             /\ queue[oqLast.id] = oqLast.packet

C7_InsertAheadLeavesGapOfK ==
    (scope[1] <= scope[2] /\ MissingFrom(scope[1], scope[2], queue) = <<>>) =>
        \A k \in 1..(U32Max - 1 - scope[2]) : \A p \in Payloads :
            LET a == OrderedQueue_insert(queue, scope, p, scope[2] + k, FALSE)
                m == OrderedQueue_flush_missing(a.queue, a.scope)
            IN  /\ a.ret
                /\ a.scope[2] = scope[2] + k + 1
                /\ m.ret = [i \in 1..k |-> scope[2] + i - 1]

----------------------------------------------------------------------------
(* RecoveryQueue: properties *)

\* C8: for every capacity, 0 included, and after any number of inserts the
\* queue stores at most `capacity` entries.
C8_CapacityNeverExceeded ==
    Len(recovery) <= capacity

\* C9: on a new queue the n-th insert returns n - 1, with or without an
\* eviction, and every returned index is greater than every index returned
\* before it, for the inserts whose index fits the integer width.
C9_IndicesMonotonic ==
    /\ \A n \in 1..Len(returned) : n <= U32Modulus => returned[n] = n - 1
    /\ \A m, n \in 1..Len(returned) :
           (m < n /\ n <= U32Modulus) => returned[m] < returned[n]
    /\ (rqLast.op = "insert" /\ ~rqLast.panicked) =>
           /\ returned # <<>>
           /\ rqLast.ret = returned[Len(returned)]

\* an insert that evicted the oldest entry returned the next index
C9_Witness ==
    /\ rqLast.op = "insert"
    /\ ~rqLast.panicked
    /\ capacity > 0
    /\ Len(rqLast.recovery) = capacity
    /\ Len(recovery) = capacity
    /\ Len(returned) > capacity + 1
    /\ rqLast.ret = Len(returned) - 1

\* C10: the live indices are exactly [next - len, next), stored oldest
\* first; an insert into a full queue removes exactly the entry with the
\* smallest index and changes no other entry; an insert into a queue that is
\* not full removes nothing.
C10_ContiguousSuffixAndEviction ==
    /\ \A i \in 1..Len(recovery) : recovery[i][1] = index - Len(recovery) + (i - 1)
    /\ (rqLast.op = "insert" /\ ~rqLast.panicked) =>
           LET pre   == rqLast.recovery
               added == <<rqLast.ret, rqLast.item>>
           IN  /\ (Len(pre) >= capacity /\ pre # <<>>) =>
                      recovery = Append(Tail(pre), added)
               /\ Len(pre) < capacity => recovery = Append(pre, added)

\* fewer inserts were made than the index width has values: the counter
\* has not wrapped
WithinIndexWidth == Len(returned) < U32Modulus

\* what C11 says of the last recover call
RecoverAsClaimed ==
    LET i == rqLast.arg
        assigned == i \in DOMAIN rqInserted
    IN  /\ (rqLast.res = "Ok") <=>
               (assigned /\ i \notin rqEvicted /\ i \notin rqRemoved)
        /\ rqLast.res = "Ok" => rqLast.item = rqInserted[i]
        /\ ~assigned => rqLast.res = "Invalid"
        /\ (assigned /\ i \in rqEvicted) => rqLast.res = "IndexOld"
        /\ recovery = rqLast.recovery
        /\ index = rqLast.index

----------------------------------------------------------------------------
(* Client handshake: properties *)

\* the moves of the status the handshake is said to make
StatusMoves ==
    {<<"Created", "Opening">>, <<"Opening", "SessionOpen">>,
     <<"SessionOpen", "Completed">>, <<"Opening", "Failed">>,
     <<"SessionOpen", "Failed">>, <<"Opening", "IncompatibleVersion">>}

\* C12: the status changes only along Created -> Opening -> SessionOpen ->
\* Completed, to Failed only from Opening or SessionOpen, and to
\* IncompatibleVersion only from Opening; a terminal status never changes.
C12_StatusMoves ==
    [][hsStatus' # hsStatus => <<hsStatus, hsStatus'>> \in StatusMoves]_vars

\* a handshake went all the way to Completed
C12_Witness ==
    /\ hsStatus = "Completed"
    /\ hsDone
    /\ hsPc = "returned"

\* C13: in every execution, whether the server answers, stays silent or
\* sends unrelated packets, the handshake future eventually resolves: the
\* task never waits forever.
C13_EventuallyResolves ==
    <>(hsDone /\ hsPoll.ret = "Ready")

\* C14: in Opening and in SessionOpen, five attempts that do not yield the
\* expected reply move the status to Failed, whether an attempt failed by a
\* receive error or by a packet that is not the expected reply.
C14_FiveMissesFail ==
    hsAttempts >= MaxTries => hsStatus = "Failed"

\* the task takes a datagram while it waits for the reply to OpenConnectRequest
OpeningTakes == hsPc = "wait_open" /\ hsInbox \in Packets /\ hsInbox' = NoPacket

\* C15: a client in Opening moves to IncompatibleVersion if and only if the
\* reply it received is an IncompatibleProtocolVersion packet, and then sends
\* no SessionInfoRequest and no later packet; a received OpenConnectReply
\* never leads to IncompatibleVersion.
C15_IncompatibleOnlyOnItsPacket ==
    /\ [][OpeningTakes =>
            /\ (hsInbox.id = ID_IncompatibleProtocolVersion
                    /\ Compose("IncompatibleProtocolVersion", hsInbox))
                => hsStatus' = "IncompatibleVersion"
            /\ hsStatus' = "IncompatibleVersion"
                => hsInbox.id = ID_IncompatibleProtocolVersion
            /\ hsInbox.id = ID_OpenConnectReply
                => hsStatus' # "IncompatibleVersion"]_vars
    /\ [](hsStatus = "IncompatibleVersion"
            => \A k \in DOMAIN hsSent : hsSent[k] = "OpenConnectRequest")

\* the task takes a datagram that decodes as SessionInfoReply while it waits
\* for the reply to SessionInfoRequest
SessionTakesReply ==
    /\ hsPc = "wait_session"
    /\ hsInbox \in Packets
    /\ hsInbox' = NoPacket
    /\ Compose("SessionInfoReply", hsInbox)

\* the replies accepted so far that decode as SessionInfoReply
SessionReplies == {k \in DOMAIN hsReply : Compose("SessionInfoReply", hsReply[k])}

\* C16: a client in SessionOpen that receives a SessionInfoReply whose MTU
\* differs from the requested one moves to Failed and sends no
\* ConnectionRequest; only a reply with the requested MTU lets the handshake
\* go on.
C16_MtuMismatchFails ==
    /\ [][(SessionTakesReply /\ hsInbox.body.mtu_size # hsMtu) =>
            /\ hsStatus' = "Failed"
            /\ hsDone'
            /\ hsPc' = "returned"
            /\ hsSent' = hsSent]_vars
    /\ []((hsPc = "returned" /\ \E k \in SessionReplies : hsReply[k].body.mtu_size # hsMtu)
            => (hsStatus = "Failed" /\ "ConnectionRequest" \notin Range(hsSent)))
    /\ []((hsPc \in {"send_connect", "online", "send_new"}
              \/ "ConnectionRequest" \in Range(hsSent))
            => /\ SessionReplies # {}
               /\ \A k \in SessionReplies : hsReply[k].body.mtu_size = hsMtu)

\* a SessionInfoReply with another MTU ended the handshake
C16_Witness ==
    /\ hsStatus = "Failed"
    /\ hsPc = "returned"
    /\ SessionReplies # {}
    /\ \A k \in SessionReplies : hsReply[k].body.mtu_size # hsMtu
    /\ hsSent = <<"OpenConnectRequest", "SessionInfoRequest">>

\* the ids a wait accepts (handshake.rs:167-168, 204, 258)
ExpectedIds(pc) ==
    IF pc = "wait_open" THEN {ID_OpenConnectReply, ID_IncompatibleProtocolVersion}
    ELSE IF pc = "wait_session" THEN {ID_SessionInfoReply}
    ELSE ID_FrameLo .. ID_FrameHi

\* the task takes a datagram whose id the state it is in does not expect
TakesUnexpected ==
    /\ hsPc \in {"wait_open", "wait_session", "online"}
    /\ hsInbox \in Packets
    /\ hsInbox' = NoPacket
    /\ hsInbox.id \notin ExpectedIds(hsPc)

\* C17: an inbound packet whose id is not one expected in the current state
\* is discarded in every state: the status stays and no packet is sent
\* because of it; in SessionOpen only a packet with the SessionInfoReply id
\* (0x08) can advance or fail the handshake.
C17_UnexpectedIdDiscarded ==
    [][TakesUnexpected =>
        /\ hsStatus' = hsStatus
        /\ hsDone' = hsDone
        /\ hsPc' = hsPc
        /\ hsSent' = hsSent]_vars

----------------------------------------------------------------------------
(* Server offline handler: properties *)

\* the first byte of the stream handle_offline returned, -1 for no bytes
ReplyId == IF offLast.reply.bytes = <<>> THEN -1 ELSE offLast.reply.bytes[1]

\* C19: for any source address the offline handler answers an
\* OpenConnectRequest with an OpenConnectReply, a SessionInfoRequest (0x07)
\* with a SessionInfoReply and an UnconnectedPing with an UnconnectedPong;
\* every other packet id yields no reply.
C19_OfflineReplies ==
    offLast.op = "handle_offline" =>
        /\ offLast.byte = ID_OpenConnectRequest => ReplyId = ID_OpenConnectReply
        /\ offLast.byte = ID_SessionInfo => ReplyId = ID_SessionInfoReply
        /\ offLast.byte = ID_UnconnectedPing => ReplyId = ID_UnconnectedPong
        /\ offLast.byte \notin {ID_OpenConnectRequest, ID_SessionInfo, ID_UnconnectedPing}
               => offLast.reply = EmptyStream

\* C20: a server that receives an OpenConnectRequest advertising a protocol
\* version outside its accepted set replies with IncompatibleProtocolVersion
\* (0x19) and not with OpenConnectReply.
C20_UnsupportedProtocolRefused ==
    (offLast.op = "handle_offline" /\ offLast.byte = ID_OpenConnectRequest
        /\ offLast.protocol \notin AcceptedProtocols)
    => (ReplyId = ID_IncompatibleProtocolVersion /\ ReplyId # ID_OpenConnectReply)

----------------------------------------------------------------------------
(* OrderedQueue: accepted payloads *)

\* the ordering indices of what the last flush returned, in the order returned
FlushedIds == SubSeq(emitted, Len(emitted) - Len(oqLast.ret) + 1, Len(emitted))

\* C21: no accepted payload is lost: every payload whose insert returned
\* true and that no later insert at the same index replaced is returned by
\* the next flush, whatever flush_missing calls came between.
C21_NoAcceptedPayloadLost ==
    oqLast.op = "flush" =>
        \A k \in DOMAIN oqLast.accepted :
            \E i \in DOMAIN oqLast.ret :
                FlushedIds[i] = k /\ oqLast.ret[i] = oqLast.accepted[k]

----------------------------------------------------------------------------
(* Client handshake: the order of the exchange *)

\* the four packets of the client, in the order of the handshake
ClientPackets ==
    <<"OpenConnectRequest", "SessionInfoRequest", "ConnectionRequest", "NewConnection">>

\* pk is the k-th reply of the handshake: OpenConnectReply, SessionInfoReply
\* with the requested MTU, ConnectionAccept, each under its own id
IsReply(k, pk) ==
    IF k = 1 THEN pk.id = ID_OpenConnectReply /\ Compose("OpenConnectReply", pk)
    ELSE IF k = 2
    THEN /\ pk.id = ID_SessionInfoReply
         /\ Compose("SessionInfoReply", pk)
         /\ pk.body.mtu_size = hsMtu
    ELSE k = 3 /\ CarriesConnectionAccept(pk)

\* the log is the whole exchange: the four packets sent once each, every
\* one but the first after the reply to the one before it
WholeExchange ==
    /\ Len(hsLog) = 7
    /\ \A k \in 1 .. 4 :
           hsLog[2 * k - 1] = [ev |-> "sent", name |-> ClientPackets[k], pk |-> NoPacket]
    /\ \A k \in 1 .. 3 :
           hsLog[2 * k].ev = "received" /\ IsReply(k, hsLog[2 * k].pk)

\* C22: the status becomes Completed only after the client, in this order,
\* sent OpenConnectRequest, received OpenConnectReply, sent
\* SessionInfoRequest, received a SessionInfoReply with the requested MTU,
\* sent ConnectionRequest, received ConnectionAccept and sent NewConnection;
\* each of the four packets is sent at most once, and a failed send of
\* ConnectionRequest or NewConnection leads to Failed.
C22_CompletedAfterTheExchange ==
    /\ [](hsStatus = "Completed" => WholeExchange)
    /\ [](\A j, k \in DOMAIN hsSent : hsSent[j] = hsSent[k] => j = k)
    /\ [][(hsPc \in {"send_connect", "send_new"} /\ hsPc' # hsPc /\ hsSent' = hsSent)
            => hsStatus' = "Failed"]_vars

----------------------------------------------------------------------------
(* Client handshake: the future *)

\* C23: no wakeup is lost: when a poll returned Pending and stored its waker
\* and the task later sets a terminal status, that waker is woken, the
\* future being polled again after each wake; no poll returns Pending once
\* done is set.
C23_NoLostWakeup ==
    /\ []((hsDone /\ hsPoll.ret = "Pending") => hsNeedPoll)
    /\ [](hsDone => ~hsWaker)
    /\ [][(hsWaker /\ ~hsDone /\ hsDone') => (hsNeedPoll' /\ ~hsWaker')]_vars
    /\ ((hsDone /\ hsPoll.ret = "Pending") ~> (hsPoll.ret = "Ready"))

\* a poll returned Pending, the task then completed the handshake and woke
\* the future, which has not been polled since
C23_Witness ==
    /\ hsDone
    /\ hsStatus = "Completed"
    /\ hsPoll.ret = "Pending"
    /\ hsNeedPoll
    /\ ~hsWaker

\* C24: in every reachable state done is true if and only if the status is
\* Completed, Failed or IncompatibleVersion; hence poll never returns Ready
\* with Created, Opening or SessionOpen, and every poll after the first
\* Ready returns the same status.
C24_DoneIffTerminal ==
    /\ [](hsDone <=> hsStatus \in Terminal)
    /\ [](hsPoll.ret = "Ready" => (hsPoll.status \in Terminal /\ hsPoll.status = hsStatus))
    /\ [][hsPoll.ret = "Ready" => hsPoll' = hsPoll]_vars

\* the future was polled after the handshake ended with IncompatibleVersion
C24_Witness ==
    /\ hsDone
    /\ hsPoll = [ret |-> "Ready", status |-> "IncompatibleVersion"]
    /\ ~hsNeedPoll

====
